---- MODULE Spec2Model ----
(***************************************************************************)
(* Model of src/src/App.tsx: the root view `App`, a function component of  *)
(* no parameters whose body is one `return` of a fixed JSX tree.           *)
(*                                                                         *)
(* The component is modelled as what a call of it does: the element tree   *)
(* it returns (App), and the completion of the call (AppCall): outcome,    *)
(* value and the store of everything outside the returned tree.  The       *)
(* callers of the component (createRoot(...).render(<App />), the test's   *)
(* render(<App />)) are the Render action, which may call the component    *)
(* any number of times, with whatever arguments a caller passes, while the *)
(* world outside the component changes on its own (EnvChange).             *)
(***************************************************************************)
EXTENDS Naturals, Sequences, FiniteSets

\* Bounds of the model.
MaxRenders == 3   \* calls of the component in one behaviour
MaxProp == 1      \* caller arguments are drawn from 0..MaxProp
MaxEnv == 1       \* values of the store outside the component: 0..MaxEnv

VARIABLES
  log,       \* one entry per completed call: the arguments, the store before, the completion
  started,   \* number of calls of the component begun
  env        \* the store outside the component (module variables, DOM, storage, clock)

vars == <<log, started, env>>

\* What a caller may pass: App declares no parameter, JavaScript drops the rest.
Args == 0..MaxProp
\* The values of the store outside the component.
EnvValues == 0..MaxEnv

----------------------------------------------------------------------------
\* Element trees

\* A JSX text child.
Text(s) == [type |-> "#text", text |-> s]

\* A JSX element <type className=...>children</type>; children as React.Children
\* lists them: whitespace-only lines between elements are dropped by JSX.
jsx(type, className, children) ==
  [type |-> type, className |-> className, children |-> children]

\* The value of a completion that returned nothing (it threw or suspended).
NoValue == [type |-> "#none"]

IsElement(n) == n.type \notin {"#text", "#none"}

RECURSIVE Descendants(_), DescendantsOfAll(_)
\* The nodes of a tree in document order (preorder), the root first.
Descendants(n) ==
  IF IsElement(n) THEN <<n>> \o DescendantsOfAll(n.children) ELSE <<n>>
DescendantsOfAll(s) ==
  IF s = <<>> THEN <<>> ELSE Descendants(Head(s)) \o DescendantsOfAll(Tail(s))

RECURSIVE SelectNodes(_, _)
\* The subsequence of the nodes of s whose type is in types.
SelectNodes(s, types) ==
  IF s = <<>> THEN <<>>
  ELSE IF Head(s).type \in types
       THEN <<Head(s)>> \o SelectNodes(Tail(s), types)
       ELSE SelectNodes(Tail(s), types)

\* The elements of a given tag in a tree, in document order (getElementsByTagName).
ElementsByTag(n, tag) == SelectNodes(Descendants(n), {tag})

\* The text chunks of a tree in document order.
RECURSIVE TextsOfAll(_)
TextsOfAll(s) ==
  IF s = <<>> THEN <<>> ELSE <<Head(s).text>> \o TextsOfAll(Tail(s))
TextsOf(n) == TextsOfAll(SelectNodes(Descendants(n), {"#text"}))

RECURSIVE Concat(_)
Concat(s) == IF s = <<>> THEN "" ELSE Head(s) \o Concat(Tail(s))
\* Node.textContent: the concatenation of the text of every descendant.
textContent(n) == Concat(TextsOf(n))

\* The element children of an element (Element.children).
ElementChildren(n) == SelectNodes(n.children, {"div", "h1", "h2", "p", "span"})

----------------------------------------------------------------------------
\* The component

\* Variants of the tree, each a slip the source could contain.

\* A tree of the shape of App's with the given tags, classes and texts.
TreeWith(outerClass, headingTag, headingText, subtitleText) ==
  jsx("div", outerClass,
    <<jsx("div", "text-center",
        <<jsx(headingTag, "text-4xl font-bold text-slate-900", <<Text(headingText)>>),
          jsx("p", "mt-4 text-slate-600", <<Text(subtitleText)>>)>>)>>)

OuterClass == "flex min-h-screen items-center justify-center bg-slate-50"

\* The heading text misspelt (Typescript for TypeScript).
AppHeadingTypo ==
  TreeWith(OuterClass, "h1", "React + Vite + Typescript", "Ready to go!")

\* The heading rendered as an h2.
AppHeadingAsH2 ==
  TreeWith(OuterClass, "h2", "React + Vite + TypeScript", "Ready to go!")

\* The subtitle rendered as a span instead of a paragraph.
AppSubtitleAsSpan ==
  jsx("div", OuterClass,
    <<jsx("div", "text-center",
        <<jsx("h1", "text-4xl font-bold text-slate-900",
              <<Text("React + Vite + TypeScript")>>),
          jsx("span", "mt-4 text-slate-600", <<Text("Ready to go!")>>)>>)>>)

\* The inner text block closed too early: the paragraph is its sibling.
AppParagraphOutside ==
  jsx("div", OuterClass,
    <<jsx("div", "text-center",
        <<jsx("h1", "text-4xl font-bold text-slate-900",
              <<Text("React + Vite + TypeScript")>>)>>),
      jsx("p", "mt-4 text-slate-600", <<Text("Ready to go!")>>)>>)

\* The paragraph written before the heading.
AppParagraphFirst ==
  jsx("div", OuterClass,
    <<jsx("div", "text-center",
        <<jsx("p", "mt-4 text-slate-600", <<Text("Ready to go!")>>),
          jsx("h1", "text-4xl font-bold text-slate-900",
              <<Text("React + Vite + TypeScript")>>)>>)>>)

\* The tree of App.tsx lines 3-8.
App ==
  jsx("div", "flex min-h-screen items-center justify-center bg-slate-50",
    <<jsx("div", "text-center",
        <<jsx("h1", "text-4xl font-bold text-slate-900",
              <<Text("React + Vite + TypeScript")>>),
          jsx("p", "mt-4 text-slate-600",
              <<Text("Ready to go!")>>)>>)>>)

\* Variants of the call, each a slip the source could contain.

\* A module-level render counter shown in the heading.
AppCallLeaky(args, store) ==
  [outcome |-> "return",
   value |-> IF store = 0 THEN App
             ELSE TreeWith(OuterClass, "h1", "React + Vite + TypeScript (again)",
                           "Ready to go!"),
   store |-> (store + 1) % (MaxEnv + 1)]

\* A prop read without a default: the call throws when the caller passes none.
AppCallThrows(args, store) ==
  IF args = 0
  THEN [outcome |-> "throw", value |-> NoValue, store |-> store]
  ELSE [outcome |-> "return", value |-> App, store |-> store]

\* A write to a module-level variable during render.
AppCallWritesStore(args, store) ==
  [outcome |-> "return", value |-> App, store |-> (store + 1) % (MaxEnv + 1)]

\* The background class taken from a prop.
AppCallClassFromProps(args, store) ==
  [outcome |-> "return",
   value |-> IF args = 0 THEN App
             ELSE TreeWith("flex min-h-screen items-center justify-center bg-slate-900",
                           "h1", "React + Vite + TypeScript", "Ready to go!"),
   store |-> store]

\* A resource read during render that suspends until the store has it.
AppCallSuspends(args, store) ==
  IF store = 0
  THEN [outcome |-> "suspend", value |-> NoValue, store |-> store]
  ELSE [outcome |-> "return", value |-> App, store |-> store]

\* One call of App with arguments args in store `store`: the body is a single
\* return statement, so the call completes normally with the tree, reads neither
\* its arguments nor the store, and leaves the store as it found it.
AppCall(args, store) ==
  [outcome |-> "return", value |-> App, store |-> store]

----------------------------------------------------------------------------
\* The callers

Init ==
  /\ log = <<>>
  /\ started = 0
  /\ env = 0

\* A caller renders the root view: it calls App and, when the call returns,
\* records the completion.  A call that threw is recorded as such; a call that
\* suspended stays pending and records nothing.
Render ==
  /\ started < MaxRenders
  /\ \E args \in Args :
       LET c == AppCall(args, env) IN
         /\ started' = started + 1
         /\ env' = c.store
         /\ log' = IF c.outcome = "suspend"
                   THEN log
                   ELSE Append(log, [args |-> args, envBefore |-> env,
                                     outcome |-> c.outcome, value |-> c.value])

\* The world outside the component changes on its own.
EnvChange ==
  /\ \E e \in EnvValues \ {env} : env' = e
  /\ UNCHANGED <<log, started>>

Next == Render \/ EnvChange

Spec == Init /\ [][Next]_vars

----------------------------------------------------------------------------
\* Properties

Renders == 1..Len(log)
Returned(i) == log[i].outcome = "return"

\* Some element of the tree has exactly this text content.
HasElementWithText(n, s) ==
  \E k \in 1..Len(Descendants(n)) :
    /\ IsElement(Descendants(n)[k])
    /\ textContent(Descendants(n)[k]) = s

\* C1: every one of any number of renders of the root view returns output that
\* contains the exact heading text "React + Vite + TypeScript" and the exact
\* subtitle text "Ready to go!", however many renders came before it.
C1_TextsOnEveryRender ==
  \A i \in Renders :
    /\ Returned(i)
    /\ HasElementWithText(log[i].value, "React + Vite + TypeScript")
    /\ \E k \in 1..Len(TextsOf(log[i].value)) :
         TextsOf(log[i].value)[k] = "Ready to go!"

C1_Witness ==
  /\ Len(log) = MaxRenders
  /\ MaxRenders >= 3
  /\ HasElementWithText(log[MaxRenders].value, "React + Vite + TypeScript")

\* C2: two renders of the root view return structurally identical trees (same
\* elements, same attributes, same text): a later render does not depend on an
\* earlier one having happened.
C2_RendersIdentical ==
  \A i \in Renders : \A j \in Renders :
    /\ log[i].outcome = log[j].outcome
    /\ log[i].value = log[j].value

C2_Witness ==
  /\ Len(log) >= 2
  /\ Returned(1) /\ Returned(2)
  /\ log[1].args # log[2].args
  /\ log[1].envBefore # log[2].envBefore
  /\ log[1].value = log[2].value

\* C3: the output of a render contains an h1 element whose text content is
\* exactly "React + Vite + TypeScript".
C3_HeadingIsH1 ==
  \A i \in Renders :
    \E k \in 1..Len(ElementsByTag(log[i].value, "h1")) :
      textContent(ElementsByTag(log[i].value, "h1")[k]) = "React + Vite + TypeScript"

C3_Witness ==
  /\ Len(log) >= 1
  /\ Returned(1)
  /\ ElementsByTag(log[1].value, "h1") # <<>>

\* C4: the output of a render contains a p element whose text content is
\* exactly "Ready to go!".
C4_SubtitleIsP ==
  \A i \in Renders :
    \E k \in 1..Len(ElementsByTag(log[i].value, "p")) :
      textContent(ElementsByTag(log[i].value, "p")[k]) = "Ready to go!"

C4_Witness ==
  /\ Len(log) >= 1
  /\ Returned(1)
  /\ ElementsByTag(log[1].value, "p") # <<>>

\* C5: a render returns one outer container whose only child is one inner
\* container, whose children are the heading and the paragraph; neither of the
\* two is a child of the outer container, whatever arguments the caller passed.
C5_NestedContainers ==
  \A i \in Renders :
    /\ Returned(i)
    /\ log[i].value.type = "div"
    /\ Len(log[i].value.children) = 1
    /\ log[i].value.children[1].type = "div"
    /\ SelectNodes(log[i].value.children, {"h1", "p"}) = <<>>
    /\ Len(log[i].value.children[1].children) = 2
    /\ log[i].value.children[1].children[1].type = "h1"
    /\ log[i].value.children[1].children[2].type = "p"

C5_Witness ==
  /\ Len(log) >= 2
  /\ log[1].args # log[2].args
  /\ Returned(1)
  /\ Len(ElementChildren(log[1].value)) = 1

\* C6: no render has an error outcome: every call, whatever it was passed,
\* returns the tree instead of throwing.
C6_NeverThrows ==
  \A i \in Renders :
    /\ log[i].outcome # "throw"
    /\ log[i].outcome = "return" => IsElement(log[i].value)

C6_Witness ==
  /\ Len(log) = Cardinality(Args)
  /\ \A a \in Args : \E i \in Renders : log[i].args = a /\ Returned(i)

\* C7: a render writes nothing outside the tree it returns: every step that
\* calls the root view leaves the store outside it as it was.
C7_RenderLeavesStore ==
  [][started' # started => env' = env]_vars

C7_Witness ==
  /\ Len(log) >= 2
  /\ started = Len(log)
  /\ log[1].envBefore # 0
  /\ log[2].envBefore = 0
  /\ env = 0

\* C8: on every render the outer container carries the classes
\* "flex min-h-screen items-center justify-center bg-slate-50", the inner
\* container "text-center", the heading "text-4xl font-bold text-slate-900" and
\* the paragraph "mt-4 text-slate-600", whatever the arguments and the store.
C8_FixedClasses ==
  \A i \in Renders :
    /\ Returned(i)
    /\ log[i].value.className
         = "flex min-h-screen items-center justify-center bg-slate-50"
    /\ Len(ElementChildren(log[i].value)) = 1
    /\ ElementChildren(log[i].value)[1].className = "text-center"
    /\ Len(ElementsByTag(log[i].value, "h1")) = 1
    /\ ElementsByTag(log[i].value, "h1")[1].className
         = "text-4xl font-bold text-slate-900"
    /\ Len(ElementsByTag(log[i].value, "p")) = 1
    /\ ElementsByTag(log[i].value, "p")[1].className = "mt-4 text-slate-600"

C8_Witness ==
  /\ Len(log) >= 2
  /\ log[1].args = 0 /\ log[2].args # 0
  /\ log[1].envBefore # log[2].envBefore
  /\ log[2].value.className = log[1].value.className

\* C9: a render is one synchronous step: in no state is a call of the root view
\* begun and not completed, and no call ends suspended.
C9_NoRenderPending ==
  /\ started = Len(log)
  /\ \A i \in Renders : log[i].outcome # "suspend"

C9_Witness ==
  /\ started = MaxRenders
  /\ Len(log) = MaxRenders
  /\ \A i \in Renders : log[i].envBefore = 0

\* C10: the output holds exactly one heading and exactly one paragraph, the
\* heading before the paragraph in document order, and its only text is the
\* heading text followed by the subtitle text.
C10_OneHeadingThenOneParagraph ==
  \A i \in Renders :
    /\ Len(ElementsByTag(log[i].value, "h1")) = 1
    /\ Len(ElementsByTag(log[i].value, "p")) = 1
    /\ SelectNodes(Descendants(log[i].value), {"h1", "p"})[1].type = "h1"
    /\ TextsOf(log[i].value) = <<"React + Vite + TypeScript", "Ready to go!">>

C10_Witness ==
  /\ Len(log) >= 1
  /\ Returned(1)
  /\ Len(TextsOf(log[1].value)) = 2
  /\ Len(Descendants(log[1].value)) = 6

====
